---- MODULE Spec2Model ----
(***************************************************************************)
(* Session lifecycle of the WhatsApp gateway (src/server.js, the server    *)
(* that starts at line 374): the Registry (clients), the QR cache          *)
(* (qrCodes), the webhook map (webhooks), the engine instances launched by *)
(* start-session and the HTTP handlers, cut at their suspension points.    *)
(***************************************************************************)
EXTENDS Integers, FiniteSets, Sequences, Bags, TLC

\* ------------------------------------------------------------------ bounds
MaxInst == 2       \* engine instances in existence at the same time
MaxReqs == 1       \* requests in flight at the same time, next to one sessions listing
MaxList == 2       \* entries a sessions listing collects

Sessions == {"a", "b"}
QRs == {"q1", "q2"}
Urls == {"u1"}
\* the URLs of a registration that is replaced
MoreUrls == {"u1", "u2"}
None == "none"
NoInst == 0
Insts == 1..MaxInst

\* the send endpoints
SendOps == {"sendText", "send-image", "send-file", "send-voice", "send-video"}
\* the phone field of a send request, as a sequence of pieces of text: digits,
\* the '@' sign and a domain; <<>> is a missing or empty field
Suffix == <<"@", "c.us">>
Phones == {<<>>, <<"5511">>, <<"5511", "@", "c.us">>, <<"5511", "@", "g.us">>}
\* sendToWebhook: default of its retries parameter
Retries == 3
\* sendToWebhook: the base of the backoff, in ms
BackoffBase == 1000

\* the API key of the server (line 410) and another key, as pieces of text
ApiKey == <<"k1">>
BadKey == <<"k0">>
Bearer == "Bearer "
\* the credential headers of a request; <<>> is a header that is absent or empty
Headers ==
    [authorization : {<<>>, <<Bearer>>, <<Bearer>> \o ApiKey, <<Bearer>> \o BadKey},
     xApiKey : {<<>>, ApiKey}]
\* the session-scoped routes of the lifecycle, by the kind of their requests
Routes == {"start", "qrcode", "status", "logout", "send", "webhook", "unhook"}

\* the listeners registered on a resolved handle (lines 704-766)
Listeners == {"onMessage", "onAck", "onIncomingCall", "onStateChange"}
\* statuses the engine hands to statusFind
EngineStatuses == {"notLogged", "authenticated", "isLogged"}
\* outcomes of an awaited engine call
ConnOutcomes == {"true", "false", "throw"}
CallOutcomes == {"ok", "throw"}

VARIABLES
    clients,      \* Registry: session id -> engine handle (NoInst = no entry)
    qrCodes,      \* QR cache: session id -> payload (None = no entry)
    webhooks,     \* webhook map: session id -> URL (None = no entry)
    inst,         \* engine instances launched by wppconnect.create
    reqs,         \* bag of the requests in flight, each at its suspension point with its handler's local variables
    resp,         \* what the last step sent out: an HTTP response, a POST to a webhook, a log line (NoResp when nothing)
    shutdownPc    \* "running", "closing" (closes pending), "ending" (pool.end pending), "exited", "failed" (shutdown threw)

vars == <<clients, qrCodes, webhooks, inst, reqs, resp, shutdownPc>>

NoInstRec == [session |-> None, phase |-> "unused", closed |-> FALSE]

NoReq == [kind |-> None, s |-> None, pc |-> "idle", webhook |-> None, wait |-> FALSE,
          client |-> NoInst, qr |-> None, inst |-> NoInst,
          qrCode |-> None, sessionStatus |-> None, isConn |-> None,
          op |-> None, phone |-> <<>>, to |-> <<>>, sent |-> FALSE,
          url |-> None, attempt |-> 0, delays |-> <<>>, list |-> <<>>, seen |-> {}]

NoResp == [kind |-> None, s |-> None, success |-> None, code |-> 0, status |-> None, qr |-> None, error |-> None,
           isConn |-> None, launched |-> FALSE,
           op |-> None, phone |-> <<>>, to |-> <<>>, sent |-> FALSE,
           url |-> None, attempt |-> 0, delays |-> <<>>, list |-> <<>>]

Init ==
    /\ clients = [s \in Sessions |-> NoInst]
    /\ qrCodes = [s \in Sessions |-> None]
    /\ webhooks = [s \in Sessions |-> None]
    /\ inst = [i \in Insts |-> NoInstRec]
    /\ reqs = EmptyBag
    /\ resp = NoResp
    /\ shutdownPc = "running"

\* ------------------------------------------------------------- Map helpers
MapDelete(m, s, empty) == [m EXCEPT ![s] = empty]
MapSet(m, s, v) == [m EXCEPT ![s] = v]

InFlight == BagToSet(reqs)
Launched == {i \in Insts : inst[i].phase # "unused"}
\* launched and not yet closed or failed
Live(i) == /\ inst[i].phase \in {"creating", "resolved"}
           /\ ~inst[i].closed
Pending(s) == \E i \in Insts : inst[i].session = s /\ inst[i].phase = "creating"

\* An instance that is closed or failed and that neither the Registry nor a
\* handler in flight refers to is forgotten: nothing can reach it any more.
Referenced(i, cl, rq) ==
    \/ \E s \in Sessions : cl[s] = i
    \/ \E rec \in BagToSet(rq) : rec.client = i \/ rec.inst = i
Forget(raw, cl, rq) ==
    [i \in Insts |->
        IF (raw[i].phase = "rejected" \/ raw[i].closed) /\ ~Referenced(i, cl, rq)
        THEN NoInstRec ELSE raw[i]]

\* the requests of rq that are not of the kinds KK
Except(rq, KK) == [r \in {x \in BagToSet(rq) : x.kind \notin KK} |-> rq[r]]

Alive == shutdownPc # "exited"
Accepting == shutdownPc = "running" /\ BagCardinality(Except(reqs, {"list"})) < MaxReqs

\* a response (res.json / res.status(code).json) of the request rec, with what
\* its handler saw and did: the answer of isConnected, whether it launched an engine
Response(rec, success, code, status, qr, error) ==
    [kind |-> rec.kind, s |-> rec.s, success |-> success, code |-> code, status |-> status, qr |-> qr,
     error |-> error, isConn |-> rec.isConn, launched |-> (rec.inst # NoInst),
     op |-> rec.op, phone |-> rec.phone, to |-> rec.to, sent |-> rec.sent,
     url |-> rec.url, attempt |-> rec.attempt, delays |-> rec.delays, list |-> rec.list]

\* the handler of rec goes on to its next suspension point as rec2
Suspend(rec, rec2) ==
    /\ reqs' = (reqs (-) SetToBag({rec})) (+) SetToBag({rec2})
    /\ resp' = NoResp
\* the handler of rec sends its response and ends
Answer(rec, response) ==
    /\ reqs' = reqs (-) SetToBag({rec})
    /\ resp' = response
\* a step that sends no response
Silent == resp' = NoResp

\* ------------------------------------------------- engine callbacks (create)
\* the start-session call that launched instance i is still in its QR-wait
Waits(rec, i) == rec.pc = "poll" /\ rec.inst = i
\* the closure variables of that call (qrCode, sessionStatus) as a callback sets them
SetLocals(i, qrCode, sessionStatus) ==
    IF \E rec \in InFlight : Waits(rec, i)
    THEN LET rec == CHOOSE x \in InFlight : Waits(x, i)
         IN (reqs (-) SetToBag({rec}))
              (+) SetToBag({[rec EXCEPT !.qrCode = IF qrCode = None THEN @ ELSE qrCode,
                                        !.sessionStatus = sessionStatus]})
    ELSE reqs

\* catchQR, lines 592-597
CatchQR(i, q) ==
    /\ Alive
    /\ Live(i)
    /\ Silent
    /\ qrCodes' = MapSet(qrCodes, inst[i].session, q)
    /\ reqs' = SetLocals(i, q, "qrcode")
    /\ UNCHANGED <<clients, webhooks, inst, shutdownPc>>

\* statusFind, lines 598-607
IsAuthStatus(status) == status = "authenticated" \/ status = "isLogged"
StatusFindStatus(status) == IF IsAuthStatus(status) THEN "connected" ELSE status
\* the QR is left in the cache when the engine reports the login
StatusFindQr_NoClear(status, m, s) == m

StatusFindQr(status, m, s) == IF IsAuthStatus(status) THEN MapDelete(m, s, None) ELSE m

StatusFind(i, status) ==
    /\ Alive
    /\ Live(i)
    /\ Silent
    /\ qrCodes' = StatusFindQr(status, qrCodes, inst[i].session)
    /\ reqs' = SetLocals(i, None, StatusFindStatus(status))
    /\ UNCHANGED <<clients, webhooks, inst, shutdownPc>>

\* line 699 seen from an iteration over clients.entries() (1437): a Map keeps
\* its entries in insertion order, so a key that is set while absent becomes a
\* new last entry, which a running iteration will still yield even if it has
\* yielded the key before; a key that is present keeps its place
Reinserted(rq, s) ==
    IF clients[s] # NoInst \/ ~ \E rec \in BagToSet(rq) : rec.kind = "list" /\ s \in rec.seen
    THEN rq
    ELSE BagOfAll(LAMBDA rec : IF rec.kind = "list" THEN [rec EXCEPT !.seen = @ \ {s}] ELSE rec, rq)

\* createClientPromise.then, lines 697-701
CreateResolve(i) ==
    /\ Alive
    /\ inst[i].phase = "creating"
    /\ clients' = MapSet(clients, inst[i].session, i)
    /\ reqs' = Reinserted(reqs, inst[i].session)
    /\ inst' = Forget([inst EXCEPT ![i].phase = "resolved"], clients', reqs')
    /\ Silent
    /\ UNCHANGED <<qrCodes, webhooks, shutdownPc>>

\* the failed creation takes the webhook registration of the id with it
CreateReject_DropsWebhook(i) ==
    /\ Alive
    /\ inst[i].phase = "creating"
    /\ clients' = MapDelete(clients, inst[i].session, NoInst)
    /\ qrCodes' = MapDelete(qrCodes, inst[i].session, None)
    /\ webhooks' = MapDelete(webhooks, inst[i].session, None)
    /\ inst' = Forget([inst EXCEPT ![i].phase = "rejected"], clients', reqs)
    /\ Silent
    /\ UNCHANGED <<reqs, shutdownPc>>

\* createClientPromise.catch, lines 771-783
CreateReject(i) ==
    /\ Alive
    /\ inst[i].phase = "creating"
    /\ clients' = MapDelete(clients, inst[i].session, NoInst)
    /\ qrCodes' = MapDelete(qrCodes, inst[i].session, None)
    /\ inst' = Forget([inst EXCEPT ![i].phase = "rejected"], clients', reqs)
    /\ Silent
    /\ UNCHANGED <<webhooks, reqs, shutdownPc>>

\* ------------------------------------------------ POST /:session/start-session
\* the test of isConnected is missing: a connected handle is treated like one that is not
ExistingHandleBranch_NoConnected(isConnected, hasQr) ==
    IF isConnected = "throw" THEN "stale"
    ELSE IF hasQr THEN "qrcode" ELSE "create"

\* the cached-QR branch is missing: a handle that is not connected is always recreated
ExistingHandleBranch_NoCachedQr(isConnected, hasQr) ==
    IF isConnected = "true" THEN "connected"
    ELSE IF isConnected = "false" THEN "create"
    ELSE "stale"

\* lines 527-561: what the handler does with the answer of isConnected on the
\* handle it found ("throw" = the check failed)
ExistingHandleBranch(isConnected, hasQr) ==
    IF isConnected = "true" THEN "connected"
    ELSE IF isConnected = "false" THEN (IF hasQr THEN "qrcode" ELSE "create")
    ELSE "stale"

\* the webhook of the request is registered before the early returns
EarlyWebhooks_Register(m, s, webhook) == IF webhook # None THEN MapSet(m, s, webhook) ELSE m

\* lines 533-549: the early returns stand before webhooks.set (690-694)
EarlyWebhooks(m, s, webhook) == m

\* the webhook of the request is not registered at launch
LaunchWebhooks_Skip(m, s, webhook) == m

\* lines 690-694: the webhook of the request, if any, is registered
LaunchWebhooks(m, s, webhook) == IF webhook # None THEN MapSet(m, s, webhook) ELSE m

\* lines 578-588, 690-694, 786-793, 815-822: launch the engine, register the
\* webhook, then either enter the QR-wait or answer at once. old is the
\* request as it is in the bag (NoReq for a request that just arrived), cl the
\* Registry as the handler leaves it.
LaunchStep(old, rec, cl) ==
    /\ \E i \in Insts : inst[i].phase = "unused"
    /\ LET i == CHOOSE x \in Insts : inst[x].phase = "unused" /\ \A y \in Insts : y < x => inst[y].phase # "unused"
           base == IF old = NoReq THEN reqs ELSE reqs (-) SetToBag({old})
           started == [rec EXCEPT !.pc = "poll", !.inst = i, !.client = NoInst, !.isConn = None,
                                  !.sessionStatus = "initializing"]
       IN /\ webhooks' = LaunchWebhooks(webhooks, rec.s, rec.webhook)
          /\ IF rec.wait
             THEN /\ reqs' = base (+) SetToBag({started})
                  /\ resp' = NoResp
             ELSE /\ reqs' = base
                  /\ resp' = Response([rec EXCEPT !.inst = i], "true", 200, "initializing", None, None)
          /\ inst' = Forget([inst EXCEPT ![i] = [session |-> rec.s, phase |-> "creating", closed |-> FALSE]],
                            cl, reqs')

\* lines 519-531 (handle found: wait for isConnected) or 519-527 + launch
StartBegin(s, webhook, wait) ==
    /\ Accepting
    /\ LET rec == [NoReq EXCEPT !.kind = "start", !.s = s, !.webhook = webhook, !.wait = wait,
                                !.client = clients[s]]
       IN IF clients[s] # NoInst
          THEN /\ reqs' = reqs (+) SetToBag({[rec EXCEPT !.pc = "awaitConn"]})
               /\ Silent
               /\ UNCHANGED <<inst, webhooks>>
          ELSE LaunchStep(NoReq, rec, clients)
    /\ UNCHANGED <<clients, qrCodes, shutdownPc>>

\* lines 530-557: isConnected settled
StartConnResult(rec, out) ==
    /\ Alive
    /\ rec \in InFlight
    /\ rec.kind = "start"
    /\ rec.pc = "awaitConn"
    /\ LET branch == ExistingHandleBranch(out, qrCodes[rec.s] # None)
           rec2 == [rec EXCEPT !.isConn = out]
       IN CASE branch = "connected" ->
                 /\ Answer(rec, Response(rec2, "true", 200, "connected", None, None))
                 /\ inst' = Forget(inst, clients, reqs')
                 /\ webhooks' = EarlyWebhooks(webhooks, rec.s, rec.webhook)
            [] branch = "qrcode" ->
                 /\ Answer(rec, Response(rec2, "true", 200, "qrcode", qrCodes[rec.s], None))
                 /\ inst' = Forget(inst, clients, reqs')
                 /\ webhooks' = EarlyWebhooks(webhooks, rec.s, rec.webhook)
            [] branch = "stale" ->
                 /\ Suspend(rec, [rec2 EXCEPT !.pc = "awaitClose"])
                 /\ inst' = [inst EXCEPT ![rec.client].closed = TRUE]
                 /\ UNCHANGED webhooks
            [] OTHER -> LaunchStep(rec, rec2, clients)
    /\ UNCHANGED <<clients, qrCodes, shutdownPc>>

\* lines 553-560 then launch: close of the stale handle settled (resolved or rejected)
StartCloseDone(rec) ==
    /\ Alive
    /\ rec \in InFlight
    /\ rec.kind = "start"
    /\ rec.pc = "awaitClose"
    /\ clients' = MapDelete(clients, rec.s, NoInst)
    /\ qrCodes' = MapDelete(qrCodes, rec.s, None)
    /\ LaunchStep(rec, rec, clients')
    /\ UNCHANGED shutdownPc

\* the loop has no ceiling
QrWaitGoesOn_NoCeiling(qrCode, createError, expired) ==
    qrCode = None /\ ~createError

\* the loop does not look at createError
QrWaitGoesOn_IgnoreError(qrCode, createError, expired) ==
    qrCode = None /\ ~expired

\* line 791: the condition of the QR-wait loop at a wake-up; expired is the
\* outcome of the clock test, Date.now() - startTime >= maxWait
QrWaitGoesOn(qrCode, createError, expired) ==
    qrCode = None /\ ~createError /\ ~expired

\* lines 791-822 and the catch of lines 824-839: one wake-up of the QR-wait
StartPoll(rec, expired) ==
    /\ Alive
    /\ rec \in InFlight
    /\ rec.kind = "start"
    /\ rec.pc = "poll"
    /\ LET createError == inst[rec.inst].phase = "rejected"
       IN IF QrWaitGoesOn(rec.qrCode, createError, expired)
          THEN /\ Suspend(rec, rec)
               /\ UNCHANGED <<clients, qrCodes>>
          ELSE IF createError
          THEN /\ clients' = MapDelete(clients, rec.s, NoInst)
               /\ qrCodes' = MapDelete(qrCodes, rec.s, None)
               /\ Answer(rec, Response(rec, "false", 500, None, None, "create"))
          ELSE IF rec.qrCode # None
          THEN /\ Answer(rec, Response(rec, "true", 200, rec.sessionStatus, rec.qrCode, None))
               /\ UNCHANGED <<clients, qrCodes>>
          ELSE /\ clients' = MapDelete(clients, rec.s, NoInst)
               /\ qrCodes' = MapDelete(qrCodes, rec.s, None)
               /\ Answer(rec, Response(rec, "false", 500, None, None, "timeout"))
    /\ inst' = Forget(inst, clients', reqs')
    /\ UNCHANGED <<webhooks, shutdownPc>>

\* ----------------------------------------------------- GET /:session/qrcode
\* lines 871-888: the answer once the handle is not known to be connected
QrcodeAnswer(rec) ==
    IF rec.qr = None
    THEN Response(rec, "false", 404, None, None, "QR Code not available")
    ELSE Response(rec, "true", 200, "qrcode", rec.qr, None)

\* the connected answer hands out the QR that is still cached
QrcodeConnected_WithQr(rec) == Response(rec, "true", 200, "connected", rec.qr, None)

\* lines 856-864
QrcodeConnected(rec) == Response(rec, "true", 200, "connected", None, None)

\* lines 843-849: the request with the QR the handler read from the cache
QrcodeRequest(s) == [NoReq EXCEPT !.kind = "qrcode", !.s = s, !.qr = qrCodes[s]]

\* lines 843-854
QrcodeBegin(s) ==
    /\ Accepting
    /\ IF clients[s] # NoInst
       THEN /\ reqs' = reqs (+) SetToBag({[QrcodeRequest(s) EXCEPT !.pc = "awaitConn"]})
            /\ Silent
       ELSE /\ resp' = QrcodeAnswer(QrcodeRequest(s))
            /\ UNCHANGED reqs
    /\ UNCHANGED <<clients, qrCodes, webhooks, inst, shutdownPc>>

\* lines 854-888
QrcodeConnResult(rec, out) ==
    /\ Alive
    /\ rec \in InFlight
    /\ rec.kind = "qrcode"
    /\ rec.pc = "awaitConn"
    /\ LET rec2 == [rec EXCEPT !.isConn = out]
       IN Answer(rec, IF out = "true" THEN QrcodeConnected(rec2) ELSE QrcodeAnswer(rec2))
    /\ UNCHANGED <<clients, qrCodes, webhooks, inst, shutdownPc>>

\* ----------------------------------------------------- GET /:session/status
StatusRequest(s) == [NoReq EXCEPT !.kind = "status", !.s = s]

\* lines 896-903
StatusMiss(rec) == Response(rec, "false", 200, "notLogged", None, None)

\* a failed or overdue check is reported like a handle that is not connected
StatusHit_ErrorAsNotLogged(rec, out) ==
    LET rec2 == [rec EXCEPT !.isConn = out]
    IN IF out = "true" THEN Response(rec2, "true", 200, "connected", None, None)
       ELSE Response(rec2, "true", 200, "notLogged", None, None)

\* lines 911-924
StatusHit(rec, out) ==
    LET rec2 == [rec EXCEPT !.isConn = out]
    IN IF out = "true" THEN Response(rec2, "true", 200, "connected", None, None)
       ELSE IF out = "false" THEN Response(rec2, "true", 200, "notLogged", None, None)
       ELSE Response(rec2, "false", 200, "error", None, "check")

\* lines 892-909
StatusBegin(s) ==
    /\ Accepting
    /\ IF clients[s] = NoInst
       THEN /\ resp' = StatusMiss(StatusRequest(s))
            /\ UNCHANGED reqs
       ELSE /\ reqs' = reqs (+) SetToBag({[StatusRequest(s) EXCEPT !.pc = "awaitConn"]})
            /\ Silent
    /\ UNCHANGED <<clients, qrCodes, webhooks, inst, shutdownPc>>

\* lines 906-925: isConnected raced against the 5s timer ("throw" = error or timeout)
StatusConnResult(rec, out) ==
    /\ Alive
    /\ rec \in InFlight
    /\ rec.kind = "status"
    /\ rec.pc = "awaitConn"
    /\ Answer(rec, StatusHit(rec, out))
    /\ UNCHANGED <<clients, qrCodes, webhooks, inst, shutdownPc>>

\* ---------------------------------------------------- POST /:session/logout
LogoutRequest(s) == [NoReq EXCEPT !.kind = "logout", !.s = s, !.client = clients[s]]

\* lines 929-946
LogoutBegin(s) ==
    /\ Accepting
    /\ IF clients[s] = NoInst
       THEN /\ resp' = Response(LogoutRequest(s), "false", 404, None, None, "Session not found")
            /\ UNCHANGED reqs
       ELSE /\ reqs' = reqs (+) SetToBag({[LogoutRequest(s) EXCEPT !.pc = "awaitLogout"]})
            /\ Silent
    /\ UNCHANGED <<clients, qrCodes, webhooks, inst, shutdownPc>>

\* a logout that succeeds and leaves the handle in the Registry
LogoutClients_Keep(m, s) == m

\* lines 949-950: the removals after a close that succeeded
LogoutClients(m, s) == MapDelete(m, s, NoInst)

\* the logout clears the whole QR cache
LogoutQrCodes_Clear(m, s) == [x \in Sessions |-> None]

\* line 950
LogoutQrCodes(m, s) == MapDelete(m, s, None)

\* a catch block that only reports the error
LogoutCatchClients_Keep(m, s) == m
LogoutCatchQrCodes_Keep(m, s) == m

\* lines 957-962: the removals of the catch block of logout
LogoutCatchClients(m, s) == MapDelete(m, s, NoInst)
LogoutCatchQrCodes(m, s) == MapDelete(m, s, None)

\* lines 943-948 / 957-968: logout raced against the 5s timer settled
\* ("throw" = error or timeout)
LogoutResult(rec, out) ==
    /\ Alive
    /\ rec \in InFlight
    /\ rec.kind = "logout"
    /\ rec.pc = "awaitLogout"
    /\ IF out = "ok"
       THEN /\ Suspend(rec, [rec EXCEPT !.pc = "awaitClose"])
            /\ inst' = [inst EXCEPT ![rec.client].closed = TRUE]
            /\ UNCHANGED <<clients, qrCodes>>
       ELSE /\ clients' = LogoutCatchClients(clients, rec.s)
            /\ qrCodes' = LogoutCatchQrCodes(qrCodes, rec.s)
            /\ Answer(rec, Response(rec, "false", 500, None, None, "logout"))
            /\ inst' = Forget(inst, clients', reqs')
    /\ UNCHANGED <<webhooks, shutdownPc>>

\* lines 948-956 / 957-968: close settled
LogoutCloseResult(rec, out) ==
    /\ Alive
    /\ rec \in InFlight
    /\ rec.kind = "logout"
    /\ rec.pc = "awaitClose"
    /\ IF out = "ok"
       THEN /\ clients' = LogoutClients(clients, rec.s)
            /\ qrCodes' = LogoutQrCodes(qrCodes, rec.s)
            /\ Answer(rec, Response(rec, "true", 200, None, None, None))
       ELSE /\ clients' = LogoutCatchClients(clients, rec.s)
            /\ qrCodes' = LogoutCatchQrCodes(qrCodes, rec.s)
            /\ Answer(rec, Response(rec, "false", 500, None, None, "close"))
    /\ inst' = Forget(inst, clients', reqs')
    /\ UNCHANGED <<webhooks, shutdownPc>>

\* ------------------------------------------- POST /:session/sendText, send-*
\* String.prototype.includes on the pieces of a phone
Includes(phone, part) ==
    \E i \in 1..(Len(phone) - Len(part) + 1) : SubSeq(phone, i, i + Len(part) - 1) = part

\* lines 1002, 1054, 1106, 1158, 1210: the test that decides whether the
\* suffix is appended
SendHasSuffix(op, phone) ==
    IF op = "sendText" THEN Includes(phone, Suffix) ELSE Includes(phone, <<"@">>)

\* lines 1002, 1054, 1106, 1158, 1210: phoneNumber
SendTarget(op, phone) == IF SendHasSuffix(op, phone) THEN phone ELSE phone \o Suffix

\* lines 976, 1028, 1080, 1132, 1184: body tells whether the other required
\* fields of the endpoint (message, base64, filename) are present
SendValid(phone, body) == phone # <<>> /\ body

\* every id passes for a session of the Registry
SendKnown_Always(cl, s) == TRUE

\* lines 983-985: the Registry lookup
SendKnown(cl, s) == cl[s] # NoInst

\* the connectivity gate is missing: only a failed check stops the send
SendBranch_NoGate(isConnected) ==
    IF isConnected = "throw" THEN "error" ELSE "send"

\* lines 993-1005, 1014: what the handler does with the answer of isConnected
SendBranch(isConnected) ==
    IF isConnected = "true" THEN "send"
    ELSE IF isConnected = "false" THEN "notConnected"
    ELSE "error"

SendRequest(s, op, phone) ==
    [NoReq EXCEPT !.kind = "send", !.s = s, !.op = op, !.phone = phone, !.client = clients[s]]

\* lines 972-993: validation, Registry lookup, then the connectivity check
SendBegin(s, op, phone, body) ==
    /\ Accepting
    /\ LET rec == SendRequest(s, op, phone)
       IN IF ~SendValid(phone, body)
          THEN /\ resp' = Response(rec, "false", 400, None, None, "Missing fields")
               /\ UNCHANGED reqs
          ELSE IF ~SendKnown(clients, s)
          THEN /\ resp' = Response(rec, "false", 404, None, None, "Session not found")
               /\ UNCHANGED reqs
          ELSE /\ reqs' = reqs (+) SetToBag({[rec EXCEPT !.pc = "awaitConn"]})
               /\ Silent
    /\ UNCHANGED <<clients, qrCodes, webhooks, inst, shutdownPc>>

\* lines 993-1005, 1014-1020: isConnected settled; when it is true the
\* engine's send is invoked on the normalized target
SendConnResult(rec, out) ==
    /\ Alive
    /\ rec \in InFlight
    /\ rec.kind = "send"
    /\ rec.pc = "awaitConn"
    /\ LET rec2 == [rec EXCEPT !.isConn = out]
       IN IF SendBranch(out) = "send"
          THEN Suspend(rec, [rec2 EXCEPT !.pc = "awaitSend", !.sent = TRUE,
                                         !.to = SendTarget(rec.op, rec.phone)])
          ELSE IF SendBranch(out) = "notConnected"
          THEN Answer(rec, Response(rec2, "false", 400, None, None, "Session not connected"))
          ELSE Answer(rec, Response(rec2, "false", 500, None, None, "check"))
    /\ inst' = Forget(inst, clients, reqs')
    /\ UNCHANGED <<clients, qrCodes, webhooks, shutdownPc>>

\* lines 1005-1020: the engine's send settled
SendResult(rec, out) ==
    /\ Alive
    /\ rec \in InFlight
    /\ rec.kind = "send"
    /\ rec.pc = "awaitSend"
    /\ IF out = "ok"
       THEN Answer(rec, Response(rec, "true", 200, None, None, None))
       ELSE Answer(rec, Response(rec, "false", 500, None, None, "send"))
    /\ inst' = Forget(inst, clients, reqs')
    /\ UNCHANGED <<clients, qrCodes, webhooks, shutdownPc>>

\* the send endpoints OO, for requests on the sessions SS with a phone of PP
Senders(SS, OO, PP) ==
    \/ \E s \in SS, op \in OO, phone \in PP, body \in BOOLEAN : SendBegin(s, op, phone, body)
    \/ \E rec \in InFlight, out \in ConnOutcomes : SendConnResult(rec, out)
    \/ \E rec \in InFlight, out \in CallOutcomes : SendResult(rec, out)

\* ----------------------------------------- POST, DELETE /:session/webhook
\* lines 1397-1417
WebhookSet(s, url) ==
    /\ shutdownPc = "running"
    /\ LET rec == [NoReq EXCEPT !.kind = "webhook", !.s = s, !.url = url]
       IN IF url = None
          THEN /\ resp' = Response(rec, "false", 400, None, None, "Missing webhook URL")
               /\ UNCHANGED webhooks
          ELSE /\ webhooks' = MapSet(webhooks, s, url)
               /\ resp' = Response(rec, "true", 200, None, None, None)
    /\ UNCHANGED <<clients, qrCodes, inst, reqs, shutdownPc>>

\* the removal hits the QR cache as well
WebhookDelete_Purge(s) ==
    /\ shutdownPc = "running"
    /\ webhooks' = MapDelete(webhooks, s, None)
    /\ qrCodes' = MapDelete(qrCodes, s, None)
    /\ resp' = Response([NoReq EXCEPT !.kind = "unhook", !.s = s], "true", 200, None, None, None)
    /\ UNCHANGED <<clients, inst, reqs, shutdownPc>>

\* lines 1420-1431
WebhookDelete(s) ==
    /\ shutdownPc = "running"
    /\ webhooks' = MapDelete(webhooks, s, None)
    /\ resp' = Response([NoReq EXCEPT !.kind = "unhook", !.s = s], "true", 200, None, None, None)
    /\ UNCHANGED <<clients, qrCodes, inst, reqs, shutdownPc>>

Hooks(SS, WS) ==
    \/ \E s \in SS, url \in WS : WebhookSet(s, url)
    \/ \E s \in SS : WebhookDelete(s)

\* ------------------------------------------------------------ GET /sessions
\* the names the listing has already reported
ListNames(list) == {list[k].name : k \in 1..Len(list)}
\* line 1437: the entries of the Registry the iterator has still to yield; seen
\* are the keys whose entry it has passed (it is live: an entry removed
\* meanwhile is skipped, one added meanwhile is visited)
ListRest(cl, seen) == {n \in Sessions : cl[n] # NoInst /\ n \notin seen}
\* lines 1440-1450: the entry reported for a session
ListEntry(n, out) ==
    [name |-> n,
     status |-> IF out = "true" THEN "connected" ELSE IF out = "false" THEN "disconnected" ELSE "error"]

\* lines 1434-1439 (first entry) or 1434-1458 (empty Registry)
ListBegin ==
    /\ shutdownPc = "running"
    /\ \A x \in InFlight : x.kind # "list"
    /\ LET rec == [NoReq EXCEPT !.kind = "list"]
       IN IF ListRest(clients, {}) = {}
          THEN /\ resp' = Response(rec, "true", 200, None, None, None)
               /\ UNCHANGED reqs
          ELSE /\ \E n \in ListRest(clients, {}) :
                    reqs' = reqs (+) SetToBag({[rec EXCEPT !.pc = "awaitConn", !.s = n,
                                                           !.client = clients[n], !.seen = {n}]})
               /\ Silent
    /\ UNCHANGED <<clients, qrCodes, webhooks, inst, shutdownPc>>

\* lines 1439-1458: isConnected of the current entry settled; go on to the
\* next entry or answer
ListConnResult(rec, out) ==
    /\ Alive
    /\ rec \in InFlight
    /\ rec.kind = "list"
    /\ rec.pc = "awaitConn"
    /\ Len(rec.list) < MaxList
    /\ LET list2 == Append(rec.list, ListEntry(rec.s, out))
       IN IF ListRest(clients, rec.seen) = {}
          THEN Answer(rec, Response([rec EXCEPT !.list = list2], "true", 200, None, None, None))
          ELSE \E n \in ListRest(clients, rec.seen) :
                   Suspend(rec, [rec EXCEPT !.list = list2, !.s = n, !.client = clients[n],
                                            !.seen = @ \cup {n}])
    /\ inst' = Forget(inst, clients, reqs')
    /\ UNCHANGED <<clients, qrCodes, webhooks, shutdownPc>>

\* the sessions listing, with connectivity checks that settle as one of OO
Listing(OO) ==
    \/ ListBegin
    \/ \E rec \in InFlight, out \in OO : ListConnResult(rec, out)

\* ------------------------------------------------------------ sendToWebhook
\* the test of the URL is missing
ShouldDispatch_Always(url) == TRUE

\* line 436: the dispatch goes on only with a registered URL
ShouldDispatch(url) == url # None

\* every wait lasts as long as the first
Backoff_Constant(attempt) == BackoffBase

\* line 472: the delay after a failed attempt, in ms
Backoff(attempt) == BackoffBase * 2^(attempt - 1)

\* what a step of a dispatch leaves behind: status is "return" (ended without
\* a call), "post" (fetch called), "sent" (line 461) or "failed" (line 476)
DispatchOut(rec, status) == Response(rec, None, 0, status, None, None)

\* the exhaustion of the attempts is thrown to the caller of the dispatch and
\* takes the session's handle with it
DispatchFailure_Throws(rec) == Response(rec, "false", 500, "failed", None, "webhook")

\* line 476: the attempts are exhausted; the dispatch logs and returns
DispatchFailure(rec) == DispatchOut(rec, "failed")

\* every event is forwarded as a message
EventType_AllMessage(listener) == "message"

\* lines 708, 733, 749, 769: the type field of the payload a listener forwards
EventType(listener) ==
    CASE listener = "onMessage" -> "message"
      [] listener = "onAck" -> "ack"
      [] listener = "onIncomingCall" -> "call"
      [] listener = "onStateChange" -> "state"

\* the listeners are registered when the engine is launched
Registered_AtLaunch(i) == inst[i].phase \in {"creating", "resolved"}

\* lines 698-704: the listeners of engine i are registered in the then of its
\* creation, behind clients.set
Registered(i) == inst[i].phase = "resolved"

\* lines 704-766, 434-449: a listener of the resolved engine i is called with
\* an event and calls sendToWebhook, which returns at once or makes its first
\* fetch; op is the type of the event
Event(i, listener) ==
    /\ Alive
    /\ Registered(i)
    /\ Live(i)
    /\ BagCardinality(reqs) < MaxReqs
    /\ LET s == inst[i].session
           rec == [NoReq EXCEPT !.kind = "dispatch", !.s = s, !.url = webhooks[s],
                                !.op = EventType(listener)]
           first == [rec EXCEPT !.pc = "fetch", !.attempt = 1]
       IN IF ShouldDispatch(webhooks[s])
          THEN /\ reqs' = reqs (+) SetToBag({first})
               /\ resp' = DispatchOut(first, "post")
          ELSE /\ reqs' = reqs
               /\ resp' = DispatchOut(rec, "return")
    /\ UNCHANGED <<clients, qrCodes, webhooks, inst, shutdownPc>>

\* one attempt more than retries
MayRetry_Inclusive(attempt) == attempt <= Retries

\* lines 444, 471: the loop goes round again after a failed attempt
MayRetry(attempt) == attempt < Retries

\* lines 449-474: the fetch of an attempt settled; ok is response.ok, and not
\* ok is an error status, a network error or the abort after 10s
DispatchFetchResult(rec, ok) ==
    /\ Alive
    /\ rec \in InFlight
    /\ rec.kind = "dispatch"
    /\ rec.pc = "fetch"
    /\ IF ok
       THEN Answer(rec, DispatchOut(rec, "sent"))
       ELSE IF MayRetry(rec.attempt)
       THEN Suspend(rec, [rec EXCEPT !.pc = "backoff",
                                     !.delays = Append(@, Backoff(rec.attempt))])
       ELSE Answer(rec, DispatchFailure(rec))
    /\ UNCHANGED <<clients, qrCodes, webhooks, inst, shutdownPc>>

\* every attempt looks the registration up again
AttemptUrl_Reread(rec, m) == m[rec.s]

\* lines 435, 449: webhookUrl is a constant of the call, read once at its start
AttemptUrl(rec, m) == rec.url

\* lines 472, 444-449: the backoff timer fired; next attempt
DispatchBackoffDone(rec) ==
    /\ Alive
    /\ rec \in InFlight
    /\ rec.kind = "dispatch"
    /\ rec.pc = "backoff"
    /\ LET next == [rec EXCEPT !.pc = "fetch", !.attempt = @ + 1,
                                 !.url = AttemptUrl(rec, webhooks)]
       IN /\ reqs' = (reqs (-) SetToBag({rec})) (+) SetToBag({next})
          /\ resp' = DispatchOut(next, "post")
    /\ UNCHANGED <<clients, qrCodes, webhooks, inst, shutdownPc>>

\* the dispatcher, fed by the listeners LL
Dispatcher(LL) ==
    \/ \E i \in Insts, listener \in LL : Event(i, listener)
    \/ \E rec \in InFlight, ok \in BOOLEAN : DispatchFetchResult(rec, ok)
    \/ \E rec \in InFlight : DispatchBackoffDone(rec)

\* -------------------------------------------------------------- authenticate
\* line 481: String.prototype.replace removes the first 'Bearer ' of the header
StripBearer(h) ==
    IF h = <<>> THEN h
    ELSE IF h[1] = Bearer THEN Tail(h)
    ELSE IF \E k \in 1..Len(h) : h[k] = Bearer
    THEN LET k == CHOOSE x \in 1..Len(h) : h[x] = Bearer /\ \A y \in 1..(x - 1) : h[y] # Bearer
         IN SubSeq(h, 1, k - 1) \o SubSeq(h, k + 1, Len(h))
    ELSE h

\* lines 481-482: the key of the request; an authorization header that is
\* absent or empty after the removal gives way to x-api-key
RequestKey(headers) ==
    IF StripBearer(headers.authorization) # <<>> THEN StripBearer(headers.authorization)
    ELSE headers.xApiKey

\* any key that is present passes
Authenticate_AnyKey(key) == key # <<>>

\* line 484: next() is called
Authenticate(key) == key # <<>> /\ key = ApiKey

\* line 485: the response of the middleware; the handler is not called
Unauthorized(kind, s) ==
    /\ shutdownPc = "running"
    /\ resp' = Response([NoReq EXCEPT !.kind = kind, !.s = s], None, 401, None, None, "Unauthorized")
    /\ UNCHANGED <<clients, qrCodes, webhooks, inst, reqs, shutdownPc>>

\* the handler of a route, as next() enters it (start-session without webhook
\* and QR-wait, sendText with phone and message, a webhook URL)
Route(kind, s) ==
    CASE kind = "start" -> StartBegin(s, None, FALSE)
      [] kind = "qrcode" -> QrcodeBegin(s)
      [] kind = "status" -> StatusBegin(s)
      [] kind = "logout" -> LogoutBegin(s)
      [] kind = "send" -> SendBegin(s, "sendText", <<"5511">>, TRUE)
      [] kind = "webhook" -> \E url \in Urls : WebhookSet(s, url)
      [] kind = "unhook" -> WebhookDelete(s)

\* lines 519, 843, 892, 929, 972, 1397, 1420: a request to a route registered
\* behind authenticate; Admitted are the headers for which it calls next()
Admitted == {headers \in Headers : Authenticate(RequestKey(headers))}
Request(headers, kind, s) ==
    IF headers \in Admitted THEN Route(kind, s) ELSE Unauthorized(kind, s)

\* the requests to the routes of session s that carry headers of HH: those
\* that the middleware admits and those that it answers itself
Requests(HH, s) ==
    \/ HH \cap Admitted # {} /\ \E kind \in Routes : Route(kind, s)
    \/ HH \ Admitted # {} /\ \E kind \in Routes : Unauthorized(kind, s)

\* ------------------------------------------------------------------ shutdown
\* the loop stops after the first handle
ShutdownCloses_First(cl) ==
    LET all == {cl[s] : s \in {x \in Sessions : cl[x] # NoInst}}
    IN IF all = {} THEN {} ELSE {CHOOSE i \in all : \A j \in all : i <= j}

\* lines 1508-1515: the handles on which the loop invokes close; each call is
\* made before any of them settles, and its rejection is caught and logged
ShutdownCloses(cl) == {cl[s] : s \in {x \in Sessions : cl[x] # NoInst}}

\* lines 1496-1515: first signal; close is invoked on the handles of the Registry
ShutdownBegin ==
    /\ shutdownPc = "running"
    /\ shutdownPc' = "closing"
    /\ inst' = [i \in Insts |->
                  IF i \in ShutdownCloses(clients) THEN [inst[i] EXCEPT !.closed = TRUE]
                  ELSE inst[i]]
    /\ Silent
    /\ UNCHANGED <<clients, qrCodes, webhooks, reqs>>

\* lines 1517-1527: the closes have settled, each resolved or rejected
\* (Promise.allSettled); clear, then exit at once or, with a database pool
\* (423), after pool.end()
ShutdownFinish(pool) ==
    /\ shutdownPc = "closing"
    /\ shutdownPc' = IF pool THEN "ending" ELSE "exited"
    /\ clients' = [s \in Sessions |-> NoInst]
    /\ qrCodes' = [s \in Sessions |-> None]
    /\ inst' = Forget(inst, clients', reqs)
    /\ Silent
    /\ UNCHANGED <<webhooks, reqs>>

\* lines 1522-1527: pool.end() settled. Resolved: exit. Rejected: the await
\* throws out of shutdown, whose promise nobody handles but the logging
\* unhandledRejection listener (1541-1544); process.exit is not reached and
\* isShuttingDown keeps later signals out (1497)
ShutdownExit(out) ==
    /\ shutdownPc = "ending"
    /\ shutdownPc' = IF out = "ok" THEN "exited" ELSE "failed"
    /\ Silent
    /\ UNCHANGED <<clients, qrCodes, webhooks, inst, reqs>>

\* -------------------------------------------------------------------- system
\* the engine: callbacks and the settling of a creation; QQ are the QR
\* payloads it hands to catchQR
Engine(QQ) ==
    \/ \E i \in Insts, q \in QQ : CatchQR(i, q)
    \/ \E i \in Insts, st \in EngineStatuses : StatusFind(i, st)
    \/ \E i \in Insts : CreateResolve(i)
    \/ \E i \in Insts : CreateReject(i)

\* the handlers, for requests on the sessions SS that carry a webhook of WS
Handlers(SS, WS) ==
    \/ \E s \in SS, w \in WS, wait \in BOOLEAN : StartBegin(s, w, wait)
    \/ \E rec \in InFlight, out \in ConnOutcomes : StartConnResult(rec, out)
    \/ \E rec \in InFlight : StartCloseDone(rec)
    \/ \E rec \in InFlight, expired \in BOOLEAN : StartPoll(rec, expired)
    \/ \E s \in SS : QrcodeBegin(s)
    \/ \E rec \in InFlight, out \in ConnOutcomes : QrcodeConnResult(rec, out)
    \/ \E s \in SS : StatusBegin(s)
    \/ \E rec \in InFlight, out \in ConnOutcomes : StatusConnResult(rec, out)
    \/ \E s \in SS : LogoutBegin(s)
    \/ \E rec \in InFlight, out \in CallOutcomes : LogoutResult(rec, out)
    \/ \E rec \in InFlight, out \in CallOutcomes : LogoutCloseResult(rec, out)

Shutdown ==
    \/ ShutdownBegin
    \/ \E pool \in BOOLEAN : ShutdownFinish(pool)
    \/ \E out \in CallOutcomes : ShutdownExit(out)

Next == Engine(QRs) \/ Handlers(Sessions, Urls \cup {None}) \/ Shutdown

\* the whole gateway
Spec == Init /\ [][Next]_vars

\* the lifecycle of one session: requests on session "a" that carry no
\* webhook, an engine that shows one QR payload
NextLife == Engine({"q1"}) \/ Handlers({"a"}, {None})
SpecLife == Init /\ [][NextLife]_vars

\* the timers of the handlers: they fire whatever the engine does
\* line 908: the 5s timer raced against isConnected in status
StatusTimer == \E rec \in InFlight : StatusConnResult(rec, "throw")
\* line 945: the 5s timer raced against logout
LogoutTimer == \E rec \in InFlight : LogoutResult(rec, "throw")
\* lines 787-791: the 30s ceiling of the QR-wait
QrWaitTimer == \E rec \in InFlight : StartPoll(rec, TRUE)

\* the lifecycle of one session where the timers fire and an engine call may
\* never settle
SpecLifeFair ==
    Init /\ [][NextLife]_vars
         /\ WF_vars(StatusTimer) /\ WF_vars(LogoutTimer) /\ WF_vars(QrWaitTimer)

\* a start-session call is in its QR-wait
Polling == \E rec \in InFlight : rec.kind = "start" /\ rec.pc = "poll"

\* the QR-wait of session "a", one at a time: start-session with and without
\* waitQrCode, the engine, the wake-ups of the loop
NextWait ==
    \/ ~Polling /\ \E wait \in BOOLEAN : StartBegin("a", None, wait)
    \/ \E rec \in InFlight, out \in ConnOutcomes : StartConnResult(rec, out)
    \/ \E rec \in InFlight : StartCloseDone(rec)
    \/ \E rec \in InFlight, expired \in BOOLEAN : StartPoll(rec, expired)
    \/ Engine({"q1"})

\* the 500ms timer of the loop fires and the clock goes on: a wake-up after
\* the ceiling comes, whatever the engine does
SpecWaitFair == Init /\ [][NextWait]_vars /\ WF_vars(QrWaitTimer)

\* the handle of session "a" comes and goes: start-session without QR-wait
\* and webhook, the settling of its creation, logout
HandleLife ==
    \/ StartBegin("a", None, FALSE)
    \/ \E rec \in InFlight, out \in ConnOutcomes : StartConnResult(rec, out)
    \/ \E rec \in InFlight : StartCloseDone(rec)
    \/ \E i \in Insts : CreateResolve(i)
    \/ \E i \in Insts : CreateReject(i)
    \/ LogoutBegin("a")
    \/ \E rec \in InFlight, out \in CallOutcomes : LogoutResult(rec, out)
    \/ \E rec \in InFlight, out \in CallOutcomes : LogoutCloseResult(rec, out)

\* every send endpoint on that session
NextSend == HandleLife \/ Senders({"a"}, SendOps, Phones)
SpecSend == Init /\ [][NextSend]_vars

\* sendText on that session
NextText == HandleLife \/ Senders({"a"}, {"sendText"}, Phones)
SpecText == Init /\ [][NextText]_vars

\* the endpoints that only look at a session (status, qrcode, listing, send,
\* webhook) next to what fills the Registry and the QR cache of session "a":
\* start-session without QR-wait (on a handle that answers connected when
\* there is one), the creation that resolves, catchQR
NextFrame ==
    \/ StartBegin("a", None, FALSE)
    \/ \E rec \in InFlight : StartConnResult(rec, "true")
    \/ \E i \in Insts : CreateResolve(i)
    \/ \E i \in Insts : CatchQR(i, "q1")
    \/ QrcodeBegin("a")
    \/ \E rec \in InFlight, out \in ConnOutcomes : QrcodeConnResult(rec, out)
    \/ StatusBegin("a")
    \/ \E rec \in InFlight, out \in ConnOutcomes : StatusConnResult(rec, out)
    \/ Senders({"a"}, {"sendText", "send-file"}, {<<"5511">>})
    \/ Hooks({"a"}, Urls \cup {None})
    \/ Listing(ConnOutcomes)
SpecFrame == Init /\ [][NextFrame]_vars

\* the webhook of session "a": registered by start-session or the webhook
\* endpoints, fed by the events of the session's engine
NextHook ==
    \/ \E w \in Urls \cup {None} : StartBegin("a", w, FALSE)
    \/ \E rec \in InFlight, out \in ConnOutcomes : StartConnResult(rec, out)
    \/ \E rec \in InFlight : StartCloseDone(rec)
    \/ \E i \in Insts : CreateResolve(i)
    \/ \E i \in Insts : CreateReject(i)
    \/ Hooks({"a"}, Urls \cup {None})
    \/ Dispatcher({"onMessage"})
SpecHook == Init /\ [][NextHook]_vars

\* the webhook of session "a" is set, replaced and removed while the events
\* of its engine are being delivered
NextRehook ==
    \/ StartBegin("a", None, FALSE)
    \/ \E i \in Insts : CreateResolve(i)
    \/ Hooks({"a"}, MoreUrls)
    \/ Dispatcher({"onMessage"})
SpecRehook == Init /\ [][NextRehook]_vars

\* the events of the engines of session "a", whose webhook is registered by
\* start-session: all four listeners feed the dispatcher
NextEvent ==
    \/ \E w \in Urls : StartBegin("a", w, FALSE)
    \/ \E rec \in InFlight, out \in ConnOutcomes : StartConnResult(rec, out)
    \/ \E rec \in InFlight : StartCloseDone(rec)
    \/ \E i \in Insts : CreateResolve(i)
    \/ \E i \in Insts : CreateReject(i)
    \/ Dispatcher(Listeners)
SpecEvent == Init /\ [][NextEvent]_vars

\* the steps of a request rec in flight
RequestStep(rec) ==
    \/ \E out \in ConnOutcomes : StartConnResult(rec, out)
    \/ StartCloseDone(rec)
    \/ \E expired \in BOOLEAN : StartPoll(rec, expired)
    \/ \E out \in CallOutcomes : LogoutResult(rec, out)
    \/ \E out \in CallOutcomes : LogoutCloseResult(rec, out)
    \/ \E out \in ConnOutcomes : SendConnResult(rec, out)
    \/ \E out \in CallOutcomes : SendResult(rec, out)

\* the callbacks and the settling of the creation of engine i
EngineStep(i) ==
    \/ CatchQR(i, "q1")
    \/ StatusFind(i, "isLogged")
    \/ CreateResolve(i)
    \/ CreateReject(i)

\* the operations on session s: its requests as they arrive and go on, the
\* steps of its engines
OperationOn(s) ==
    \/ \E w \in Urls \cup {None}, wait \in BOOLEAN : StartBegin(s, w, wait)
    \/ LogoutBegin(s)
    \/ SendBegin(s, "sendText", <<"5511">>, TRUE)
    \/ WebhookSet(s, "u1")
    \/ WebhookDelete(s)
    \/ \E rec \in InFlight : rec.s = s /\ RequestStep(rec)
    \/ \E i \in Insts : inst[i].session = s /\ EngineStep(i)

\* two sessions side by side: the requests on session "a", served one at a
\* time while the engines go on, next to a session "b" that is started once
\* and filled, or left empty again, by its engine
NextPair ==
    \/ reqs = EmptyBag /\ \E w \in Urls \cup {None}, wait \in BOOLEAN : StartBegin("a", w, wait)
    \/ \E rec \in InFlight, out \in ConnOutcomes : StartConnResult(rec, out)
    \/ \E rec \in InFlight : StartCloseDone(rec)
    \/ \E rec \in InFlight, expired \in BOOLEAN : StartPoll(rec, expired)
    \/ reqs = EmptyBag /\ LogoutBegin("a")
    \/ \E rec \in InFlight, out \in CallOutcomes : LogoutResult(rec, out)
    \/ \E rec \in InFlight, out \in CallOutcomes : LogoutCloseResult(rec, out)
    \/ reqs = EmptyBag /\ SendBegin("a", "sendText", <<"5511">>, TRUE)
    \/ \E rec \in InFlight, out \in ConnOutcomes : SendConnResult(rec, out)
    \/ \E rec \in InFlight, out \in CallOutcomes : SendResult(rec, out)
    \/ WebhookSet("a", "u1")
    \/ WebhookDelete("a")
    \/ (\A i \in Insts : inst[i].session # "b") /\ StartBegin("b", "u1", FALSE)
    \/ \E i \in Insts : EngineStep(i)
SpecPair == Init /\ [][NextPair]_vars

\* the webhook registration of session "a" next to everything that ends a
\* session: start-session with or without webhook and QR-wait, the settling
\* of its creation, logout, the webhook endpoints
NextReg ==
    \/ \E w \in Urls \cup {None}, wait \in BOOLEAN : StartBegin("a", w, wait)
    \/ \E rec \in InFlight, out \in ConnOutcomes : StartConnResult(rec, out)
    \/ \E rec \in InFlight : StartCloseDone(rec)
    \/ \E rec \in InFlight, expired \in BOOLEAN : StartPoll(rec, expired)
    \/ \E i \in Insts : CreateResolve(i)
    \/ \E i \in Insts : CreateReject(i)
    \/ LogoutBegin("a")
    \/ \E rec \in InFlight, out \in CallOutcomes : LogoutResult(rec, out)
    \/ \E rec \in InFlight, out \in CallOutcomes : LogoutCloseResult(rec, out)
    \/ Hooks({"a"}, Urls \cup {None})
SpecReg == Init /\ [][NextReg]_vars

\* start-session on session "a", every request with a webhook, on a handle
\* that is connected, shows a QR or is stale; the registration can be removed
NextEarly ==
    \/ \E w \in MoreUrls : StartBegin("a", w, FALSE)
    \/ \E rec \in InFlight, out \in ConnOutcomes : StartConnResult(rec, out)
    \/ \E rec \in InFlight : StartCloseDone(rec)
    \/ \E i \in Insts : CreateResolve(i)
    \/ \E i \in Insts : CatchQR(i, "q1")
    \/ WebhookDelete("a")
SpecEarly == Init /\ [][NextEarly]_vars

\* the sessions listing next to sessions that come and go: start-session
\* without QR-wait and webhook on both ids, the settling of the creations,
\* logout
NextList ==
    \/ \E s \in Sessions : StartBegin(s, None, FALSE)
    \/ \E rec \in InFlight, out \in ConnOutcomes : StartConnResult(rec, out)
    \/ \E rec \in InFlight : StartCloseDone(rec)
    \/ \E i \in Insts : CreateResolve(i)
    \/ \E i \in Insts : CreateReject(i)
    \/ \E s \in Sessions : LogoutBegin(s)
    \/ \E rec \in InFlight, out \in CallOutcomes : LogoutResult(rec, out)
    \/ \E rec \in InFlight, out \in CallOutcomes : LogoutCloseResult(rec, out)
    \/ Listing(ConnOutcomes)
SpecList == Init /\ [][NextList]_vars

\* shutdown next to two sessions that are started: start-session without
\* QR-wait and webhook, the settling of the creations, catchQR
NextDown ==
    \/ \E s \in Sessions : StartBegin(s, None, FALSE)
    \/ \E rec \in InFlight, out \in ConnOutcomes : StartConnResult(rec, out)
    \/ \E rec \in InFlight : StartCloseDone(rec)
    \/ \E i \in Insts : CreateResolve(i)
    \/ \E i \in Insts : CreateReject(i)
    \/ \E i \in Insts : CatchQR(i, "q1")
    \/ Shutdown
SpecDown == Init /\ [][NextDown]_vars

\* the calls shutdown awaits settle: the closes, each resolved or rejected,
\* and pool.end()
ShutdownSettles ==
    \/ \E pool \in BOOLEAN : ShutdownFinish(pool)
    \/ \E out \in CallOutcomes : ShutdownExit(out)
SpecDownFair == SpecDown /\ WF_vars(ShutdownSettles)

\* requests with any credential headers to the routes of session "a", next
\* to a healthy engine: its creation resolves, it shows a QR, and the calls
\* of the admitted requests succeed
NextAuth ==
    \/ Requests(Headers, "a")
    \/ \E rec \in InFlight : StartConnResult(rec, "true")
    \/ \E i \in Insts : CreateResolve(i)
    \/ \E i \in Insts : CatchQR(i, "q1")
    \/ \E rec \in InFlight : QrcodeConnResult(rec, "true")
    \/ \E rec \in InFlight : StatusConnResult(rec, "true")
    \/ \E rec \in InFlight : LogoutResult(rec, "ok")
    \/ \E rec \in InFlight : LogoutCloseResult(rec, "ok")
    \/ \E rec \in InFlight : SendConnResult(rec, "true")
    \/ \E rec \in InFlight : SendResult(rec, "ok")
SpecAuth == Init /\ [][NextAuth]_vars

\* ------------------------------------------------------------------ claims
\* a step that launches an engine instance (wppconnect.create is invoked)
NewInstance == \E i \in Insts : inst[i].phase = "unused" /\ inst'[i].phase = "creating"

\* the responses a qrcode fetch of s issued in this state can get
QrcodeNow(s) ==
    {QrcodeAnswer(QrcodeRequest(s))}
        \cup (IF clients[s] # NoInst THEN {QrcodeConnected(QrcodeRequest(s))} ELSE {})

\* the responses a status query of s issued in this state can get
StatusNow(s) ==
    IF clients[s] = NoInst THEN {StatusMiss(StatusRequest(s))}
    ELSE {StatusHit(StatusRequest(s), out) : out \in ConnOutcomes}

LogoutResponded == resp.kind = "logout" /\ resp.code \in {200, 500}

\* C1: in every reachable state each session id has at most one engine
\* instance that was launched and is neither closed nor failed.
C1_AtMostOneLive ==
    \A s \in Sessions : Cardinality({i \in Insts : inst[i].session = s /\ Live(i)}) <= 1

\* C2: a start-session call that arrives while a creation for the same id is
\* still pending launches no second creation, so no id ever has two creations
\* pending at once.
C2_NoSecondCreate ==
    \A s \in Sessions :
        Cardinality({i \in Insts : inst[i].session = s /\ inst[i].phase = "creating"}) <= 1

\* C3: a start-session call whose handle reported connected launches no
\* engine and answers 200 with status connected and a null QR.
C3_ConnectedNoLaunch ==
    (resp.kind = "start" /\ resp.isConn = "true") =>
        /\ ~resp.launched
        /\ resp.code = 200
        /\ resp.status = "connected"
        /\ resp.qr = None

C3_Witness ==
    /\ resp.kind = "start"
    /\ resp.isConn = "true"
    /\ resp.status = "connected"
    /\ clients[resp.s] # NoInst

\* C4: when the handle of a start-session call reports not connected and a QR
\* is cached for the id, the call answers that payload with status qrcode,
\* launches no engine and leaves the Registry and the QR cache as they were.
C4_CachedQrReturned ==
    [][\A rec \in InFlight :
          (StartConnResult(rec, "false") /\ qrCodes[rec.s] # None) =>
              /\ resp'.code = 200
              /\ resp'.status = "qrcode"
              /\ resp'.qr = qrCodes[rec.s]
              /\ ~NewInstance
              /\ clients' = clients
              /\ qrCodes' = qrCodes]_vars

C4_Witness ==
    /\ resp.kind = "start"
    /\ resp.isConn = "false"
    /\ resp.status = "qrcode"
    /\ resp.qr # None
    /\ resp.qr = qrCodes[resp.s]

\* C5: whenever start-session launches an engine for an id that had a handle
\* in the Registry when the call began, close was invoked on that handle and
\* the handle and any cached QR of the id are out of the Registry.
C5_StaleClosedBeforeLaunch ==
    [][\A rec \in InFlight :
          (/\ rec.kind = "start"
           /\ rec.client # NoInst
           /\ NewInstance
           /\ \/ \E out \in ConnOutcomes : StartConnResult(rec, out)
              \/ StartCloseDone(rec)) =>
              /\ inst[rec.client].closed
              /\ clients'[rec.s] # rec.client
              /\ qrCodes'[rec.s] = None]_vars

\* C6: a handle leaves the Registry only after close was invoked on it.
C6_RemovedOnlyAfterClose ==
    [][\A s \in Sessions :
          (clients[s] # NoInst /\ clients'[s] # clients[s]) => inst[clients[s]].closed]_vars

\* C7: a QR payload is cached for a session only while the transient status
\* of the call that obtained it is qrcode.
C7_QrOnlyWhileQrcode ==
    \A rec \in InFlight :
        (rec.pc = "poll" /\ rec.qrCode # None /\ qrCodes[rec.s] = rec.qrCode) =>
            rec.sessionStatus = "qrcode"

\* C8: once statusFind has reported connected for s, a qrcode fetch issued
\* next gets no QR payload, whatever QR was cached before.
C8_NoQrAfterConnected ==
    [][\A s \in Sessions, i \in Insts :
          (qrCodes[s] # None /\ inst[i].session = s) =>
              \A st \in EngineStatuses :
                  (IsAuthStatus(st) /\ StatusFind(i, st)) =>
                      \A x \in QrcodeNow(s)' : x.qr = None]_vars

C8_Witness ==
    \E rec \in InFlight :
        /\ rec.pc = "poll"
        /\ rec.sessionStatus = "connected"
        /\ rec.qrCode # None
        /\ qrCodes[rec.s] = None

\* C9: after a logout of a known session has responded, whatever the outcome
\* of the engine's logout and close, a status query issued next reports
\* notLogged.
C9_StatusAfterLogout ==
    LogoutResponded => \A x \in StatusNow(resp.s) : x.status = "notLogged" /\ x.isConn = None

C9_Witness ==
    /\ LogoutResponded
    /\ resp.error = "logout"
    /\ \E x \in StatusNow(resp.s) : x.status = "notLogged"

\* C10: when a logout of a known session has responded (200 or 500) the
\* Registry holds neither a handle nor a QR for the id, and a qrcode fetch
\* issued next is answered 404.
C10_PurgedAfterLogout ==
    LogoutResponded =>
        /\ clients[resp.s] = NoInst
        /\ qrCodes[resp.s] = None
        /\ \A x \in QrcodeNow(resp.s) : x.code = 404

C10_Witness ==
    /\ LogoutResponded
    /\ resp.error = "close"
    /\ \A x \in QrcodeNow(resp.s) : x.code = 404

\* C11: a logout of an id that is not in the Registry is answered 404 and
\* changes nothing; a logout issued directly after a logout has responded is
\* such a logout, so it leaves the Registry, the QR cache and the webhook map
\* as the first left them.
C11_LogoutIdempotent ==
    [][\A s \in Sessions :
          ((clients[s] = NoInst \/ (LogoutResponded /\ resp.s = s)) /\ LogoutBegin(s)) =>
              /\ resp'.kind = "logout"
              /\ resp'.code = 404
              /\ clients' = clients
              /\ qrCodes' = qrCodes
              /\ webhooks' = webhooks
              /\ inst' = inst
              /\ reqs' = reqs]_vars

C11_Witness ==
    /\ resp.kind = "logout"
    /\ resp.code = 404
    /\ clients[resp.s] = NoInst
    /\ \E i \in Insts : inst[i].session = resp.s /\ inst[i].phase = "resolved"

\* the handler of rec waits for an engine call (isConnected, logout, close)
AwaitsEngine(rec) == rec.pc \in {"awaitConn", "awaitLogout", "awaitClose"}
Waiting(k) == \E rec \in InFlight : rec.kind = k /\ AwaitsEngine(rec)

\* C12: every request that waits on an engine call eventually stops waiting
\* (its wait is cut by a timeout), even if the engine call never settles.
C12_WaitIsCut ==
    \A k \in {"start", "qrcode", "status", "logout"} : Waiting(k) ~> ~Waiting(k)

\* lines 915, 923: the connected field of a status response
StatusConnected(x) == x.status = "connected"

\* C13: for a session in the Registry, a status query whose connectivity
\* check throws or is cut by the 5s timer is answered with status error and
\* connected false, and the handle and the cached QR stay where they are.
C13_StatusErrorKeepsSession ==
    [][\A rec \in InFlight :
          StatusConnResult(rec, "throw") =>
              /\ resp'.kind = "status"
              /\ resp'.status = "error"
              /\ ~StatusConnected(resp')
              /\ clients' = clients
              /\ qrCodes' = qrCodes
              /\ inst' = inst]_vars

C13_Witness ==
    /\ resp.kind = "status"
    /\ resp.isConn = "throw"
    /\ resp.status = "error"
    /\ clients[resp.s] # NoInst
    /\ qrCodes[resp.s] # None

\* what C14 expects of a qrcode fetch that found the QR qr in the cache and
\* whose handle, if any, answered isConn to the connectivity check
\* (None = no handle)
QrcodeExpected(x, isConn, qr) ==
    IF isConn = "true"
    THEN x.code = 200 /\ x.status = "connected" /\ x.qr = None
    ELSE IF qr # None
    THEN x.code = 200 /\ x.status = "qrcode" /\ x.qr = qr
    ELSE x.code = 404 /\ x.qr = None

\* C14: a qrcode fetch whose handle reports connected answers connected with
\* no QR even if a QR is cached; with no handle, a handle that is not
\* connected or a failing check it returns the QR cached when it was issued,
\* or 404 when none was.
C14_QrcodeAnswers ==
    [][/\ \A s \in Sessions :
             (clients[s] = NoInst /\ QrcodeBegin(s)) =>
                 resp'.kind = "qrcode" /\ QrcodeExpected(resp', None, qrCodes[s])
       /\ \A rec \in InFlight, out \in ConnOutcomes :
             QrcodeConnResult(rec, out) =>
                 resp'.kind = "qrcode" /\ QrcodeExpected(resp', out, rec.qr)]_vars

C14_Witness ==
    /\ resp.kind = "qrcode"
    /\ resp.isConn = "true"
    /\ resp.status = "connected"
    /\ resp.qr = None
    /\ qrCodes[resp.s] # None

\* C15 as stated: a send-text request against an id that is not in the
\* Registry is always answered 404 and makes no engine call.
C15_UnknownAlwaysNotFound ==
    [][\A s \in Sessions, phone \in Phones, body \in BOOLEAN :
          (clients[s] = NoInst /\ SendBegin(s, "sendText", phone, body)) =>
              /\ resp'.code = 404
              /\ resp'.isConn = None
              /\ ~resp'.sent
              /\ reqs' = reqs]_vars

\* C15, amended: a send-text request that carries a phone and a message,
\* against an id that is not in the Registry, is answered 404 and makes no
\* engine call, neither the connectivity check nor the send.
C15_UnknownValidNotFound ==
    [][\A s \in Sessions, phone \in Phones, body \in BOOLEAN :
          (clients[s] = NoInst /\ SendValid(phone, body) /\ SendBegin(s, "sendText", phone, body)) =>
              /\ resp'.code = 404
              /\ resp'.isConn = None
              /\ ~resp'.sent
              /\ reqs' = reqs]_vars

C15_Witness ==
    /\ resp.kind = "send"
    /\ resp.op = "sendText"
    /\ resp.code = 404
    /\ clients[resp.s] = NoInst
    /\ ~resp.sent

\* C16: a send-text request whose handle is in the Registry and answers the
\* connectivity check with not connected is answered 400 not-connected, and
\* the engine's send is never invoked for it.
C16_DisconnectedNoSend ==
    /\ (resp.kind = "send" /\ resp.op = "sendText" /\ resp.isConn = "false") =>
           /\ resp.code = 400
           /\ resp.error = "Session not connected"
           /\ ~resp.sent
    /\ \A rec \in InFlight : (rec.kind = "send" /\ rec.sent) => rec.isConn = "true"

C16_Witness ==
    /\ resp.kind = "send"
    /\ resp.op = "sendText"
    /\ resp.isConn = "false"
    /\ resp.code = 400
    /\ clients[resp.s] # NoInst

\* the target C18 expects for the caller's phone: unchanged when it carries
\* a domain ('@' and what follows), else with '@c.us' appended
TargetExpected(phone) == IF Includes(phone, <<"@">>) THEN phone ELSE phone \o Suffix

\* C18: for every send operation the target handed to the engine is the
\* caller's phone when it carries a domain suffix and the phone with '@c.us'
\* appended when it carries none; normalizing the target again changes
\* nothing.
C18_TargetNormalized ==
    \A rec \in InFlight :
        (rec.kind = "send" /\ rec.sent) =>
            /\ rec.to = TargetExpected(rec.phone)
            /\ SendTarget(rec.op, rec.to) = rec.to

\* a step of the status, qrcode, sessions-listing, send or webhook endpoints
\* (each of them answers or moves a request)
FrameStep ==
  /\ resp' # NoResp \/ reqs' # reqs
  /\
    \/ \E s \in Sessions : StatusBegin(s) \/ QrcodeBegin(s) \/ WebhookDelete(s)
    \/ \E s \in Sessions, url \in Urls \cup {None} : WebhookSet(s, url)
    \/ \E s \in Sessions, op \in SendOps, phone \in Phones, body \in BOOLEAN :
           SendBegin(s, op, phone, body)
    \/ ListBegin
    \/ \E rec \in InFlight, out \in ConnOutcomes :
           \/ StatusConnResult(rec, out)
           \/ QrcodeConnResult(rec, out)
           \/ SendConnResult(rec, out)
           \/ ListConnResult(rec, out)
    \/ \E rec \in InFlight, out \in CallOutcomes : SendResult(rec, out)

\* C17: a request rejected as validation, not-found or not-connected (400,
\* 404) leaves the Registry and the QR cache unchanged, and no step of the
\* status, qrcode, sessions-listing, send or webhook endpoints adds or
\* removes an entry of either: a step that changes one of them is none of
\* theirs.
C17_EndpointsKeepRegistry ==
    [][(clients' # clients \/ qrCodes' # qrCodes) =>
           /\ resp'.code \notin {400, 404}
           /\ ~FrameStep]_vars

C17_Witness ==
    /\ resp.kind = "send"
    /\ resp.code = 400
    /\ resp.isConn = "false"
    /\ clients[resp.s] # NoInst
    /\ qrCodes[resp.s] # None

\* C19: a webhook dispatch for a session that has no registered URL makes
\* no network call and returns without effect.
C19_NoUrlNoCall ==
    [][\A i \in Insts, listener \in Listeners :
          (Event(i, listener) /\ webhooks[inst[i].session] = None) =>
              /\ resp'.status = "return"
              /\ reqs' = reqs
              /\ UNCHANGED <<clients, qrCodes, webhooks, inst>>]_vars

C19_Witness ==
    /\ resp.kind = "dispatch"
    /\ resp.status = "return"
    /\ webhooks[resp.s] = None
    /\ reqs = EmptyBag

C21_FailureIsolated ==
    [][\A rec \in InFlight :
          DispatchFetchResult(rec, FALSE) =>
              /\ resp'.code = 0
              /\ resp'.error = None
              /\ resp' = NoResp \/ (resp'.kind = "dispatch" /\ resp'.status = "failed")
              /\ Except(reqs', {"dispatch"}) = Except(reqs, {"dispatch"})
              /\ UNCHANGED <<clients, qrCodes, webhooks, inst>>]_vars

C21_Witness ==
    /\ resp.kind = "dispatch"
    /\ resp.status = "failed"
    /\ resp.code = 0
    /\ clients[resp.s] # NoInst
    /\ webhooks[resp.s] = resp.url

\* a step that ends or fails a session: logout settling, a creation that
\* rejects, the purge of a start-session that fails
EndsSession ==
    \/ \E rec \in InFlight, out \in CallOutcomes : LogoutResult(rec, out) \/ LogoutCloseResult(rec, out)
    \/ \E i \in Insts : CreateReject(i)
    \/ \E rec \in InFlight, expired \in BOOLEAN : StartPoll(rec, expired)

\* C22: the webhook registration of an id is independent of the session: the
\* webhook endpoint sets it for an id that has no handle; no settling of a
\* logout (successful or failed), no rejected creation and no purge of a
\* failed start-session changes the webhook map; and a registration
\* disappears only in a step of the webhook removal endpoint for that id.
C22_WebhookIndependent ==
    [][/\ webhooks' # webhooks =>
              /\ ~EndsSession
              /\ \A s \in Sessions :
                     (webhooks[s] # None /\ webhooks'[s] = None) => WebhookDelete(s)
       /\ (resp'.kind = "webhook" /\ resp'.code = 200) =>
              \A s \in Sessions, url \in Urls :
                  (clients[s] = NoInst /\ WebhookSet(s, url)) => webhooks'[s] = url]_vars

C22_Witness ==
    /\ resp.kind = "logout"
    /\ resp.code = 500
    /\ clients[resp.s] = NoInst
    /\ webhooks[resp.s] # None

\* C23: the step in which a start-session request that carries a webhook
\* URL launches the engine (and after which it waits or has responded) has
\* registered that URL for the id; and no later settling of the creation,
\* resolved or rejected, and no wake-up of the QR-wait, the timeout included,
\* changes the webhook map.
C23_WebhookAtLaunch ==
    [][/\ NewInstance =>
              /\ \A s \in Sessions, w \in Urls, wait \in BOOLEAN :
                     StartBegin(s, w, wait) => webhooks'[s] = w
              /\ \A rec \in InFlight :
                     (/\ rec.kind = "start"
                      /\ rec.webhook # None
                      /\ \/ \E out \in ConnOutcomes : StartConnResult(rec, out)
                         \/ StartCloseDone(rec)) => webhooks'[rec.s] = rec.webhook
       /\ webhooks' # webhooks =>
              /\ ~ \E i \in Insts : CreateResolve(i) \/ CreateReject(i)
              /\ ~ \E rec \in InFlight, expired \in BOOLEAN : StartPoll(rec, expired)]_vars

C23_Witness ==
    \E rec \in InFlight :
        /\ rec.kind = "start"
        /\ rec.pc = "poll"
        /\ rec.webhook # None
        /\ webhooks[rec.s] = rec.webhook
        /\ inst[rec.inst].phase = "rejected"

\* C24: the step in which a creation rejects leaves neither a handle nor a
\* QR for its id in the Registry; and the next wake-up of the QR-wait of the
\* request that launched it, whether the ceiling is reached or not and
\* whether a QR was seen or not, ends the wait (the loop condition is false
\* in every state where the creation has rejected) and answers 500 with the
\* creation error.
C24_RejectPurgesAndFails ==
    [][/\ \A rec \in BagToSet(reqs') :
              (rec.kind = "start" /\ rec.pc = "poll" /\ inst'[rec.inst].phase = "rejected") =>
                  \A expired \in BOOLEAN : ~QrWaitGoesOn(rec.qrCode, TRUE, expired)
       /\ \A i \in Insts :
              (inst[i].phase = "creating" /\ inst'[i].phase # "creating" /\ CreateReject(i)) =>
                  /\ clients'[inst[i].session] = NoInst
                  /\ qrCodes'[inst[i].session] = None
       /\ \A rec \in InFlight :
              (/\ rec.kind = "start"
               /\ rec.pc = "poll"
               /\ inst[rec.inst].phase = "rejected"
               /\ \E expired \in BOOLEAN : StartPoll(rec, expired)) =>
                  /\ resp'.kind = "start"
                  /\ resp'.code = 500
                  /\ resp'.error = "create"
                  /\ reqs' = reqs (-) SetToBag({rec})]_vars

C24_Witness ==
    /\ resp.kind = "start"
    /\ resp.code = 500
    /\ resp.error = "create"
    /\ resp.launched
    /\ clients[resp.s] = NoInst
    /\ qrCodes[resp.s] = None

\* C25: when a QR-wait reaches its ceiling with neither a QR nor a creation
\* error the request is answered 500 with the timeout error, and that step
\* removes nothing from the Registry or the QR cache: what the creation in
\* the background has installed stays.
C25_TimeoutNoRollback ==
    [][\A rec \in InFlight :
          (/\ rec.kind = "start"
           /\ rec.pc = "poll"
           /\ rec.qrCode = None
           /\ inst[rec.inst].phase # "rejected"
           /\ StartPoll(rec, TRUE)) =>
              /\ resp'.code = 500
              /\ resp'.error = "timeout"
              /\ clients' = clients
              /\ qrCodes' = qrCodes]_vars

\* the number of entries the listing reports for session n
ListCount(list, n) == Cardinality({k \in 1..Len(list) : list[k].name = n})

\* the entries of the listing that is in flight or has just responded
Collected ==
    IF resp.kind = "list" THEN resp.list
    ELSE IF \E x \in InFlight : x.kind = "list" THEN (CHOOSE x \in InFlight : x.kind = "list").list
    ELSE <<>>

\* C26: the response of the sessions listing holds one entry for every
\* session that is in the Registry, and a connectivity check that fails adds
\* the entry of its session with status error, keeps the entries collected
\* so far and goes on with the listing.
C26_ListingComplete ==
    [][/\ (resp'.kind = "list" /\ resp'.code = 200) =>
              \A n \in Sessions : clients'[n] # NoInst => ListCount(resp'.list, n) = 1
       /\ \A rec \in InFlight :
              (rec.kind = "list" /\ ListConnResult(rec, "throw")) =>
                  /\ resp'.code \in {0, 200}
                  /\ Collected' = Append(rec.list, [name |-> rec.s, status |-> "error"])]_vars

\* C27: the step that begins the shutdown invokes close on every handle that
\* is in the Registry, whatever becomes of the other closes, and the step
\* that follows the settling of the closes leaves the Registry and the QR
\* cache empty.
C27_ShutdownClosesAll ==
    [][/\ (shutdownPc = "running" /\ shutdownPc' # "running") =>
              \A s \in Sessions : clients[s] # NoInst => inst'[clients[s]].closed
       /\ (shutdownPc = "closing" /\ shutdownPc' # "closing") =>
              \A s \in Sessions : clients'[s] = NoInst /\ qrCodes'[s] = None]_vars

C27_Witness ==
    /\ shutdownPc = "closing"
    /\ clients["a"] # NoInst
    /\ clients["b"] # NoInst
    /\ clients["a"] # clients["b"]
    /\ inst[clients["a"]].closed
    /\ inst[clients["b"]].closed
    /\ \E s \in Sessions : qrCodes[s] # None

\* the request presents the API key, as bearer token, as bare authorization
\* header or as x-api-key
Presents(headers) ==
    StripBearer(headers.authorization) = ApiKey \/ headers.xApiKey = ApiKey
\* the headers with a missing or incorrect credential
NoCredential == {headers \in Headers : ~Presents(headers)}

\* what the last step may have been a request for: the request it answered,
\* or else the requests that wait for their first engine call
Arrived ==
    IF resp.kind \in Routes THEN {resp}
    ELSE {rec \in InFlight : rec.kind \in Routes /\ rec.pc \in {"awaitConn", "awaitLogout", "poll"}}

\* C28: a request to a session-scoped route whose headers carry no
\* credential or none that is the API key is answered 401 Unauthorized and
\* its handler is not entered: no engine call is started (no request comes
\* in flight) and the Registry, the QR cache, the webhook map and the engine
\* instances are unchanged. Stated the other way round: a step that is not
\* such an answer is not the step of a request with such headers.
C28_UnauthorizedStopsAtGate ==
    [][\/ /\ resp'.code = 401
          /\ resp'.error = "Unauthorized"
          /\ UNCHANGED <<clients, qrCodes, webhooks, inst, reqs>>
       \/ \A headers \in NoCredential, x \in Arrived' : ~Request(headers, x.kind, x.s)]_vars

C28_Witness ==
    /\ resp.code = 401
    /\ resp.kind = "logout"
    /\ clients[resp.s] # NoInst
    /\ qrCodes[resp.s] # None
    /\ webhooks[resp.s] # None

\* a step in which sendToWebhook is called: it returns at once or makes its
\* first fetch
DispatchBegins ==
    /\ resp.kind = "dispatch"
    /\ resp.status \in {"return", "post"}
    /\ resp.attempt <= 1

\* C31: every call of the dispatcher is the call of a listener of an engine
\* instance whose creation has resolved, which is the step that stored its
\* handle in the Registry; and the event of each listener is forwarded with
\* its own type: message, ack, call, state.
C31_EventsAfterResolve ==
    [][DispatchBegins' =>
          /\ \E i \in Insts, listener \in Listeners : Event(i, listener)
          /\ \A i \in Insts, listener \in Listeners :
                 Event(i, listener) =>
                     /\ inst[i].phase = "resolved"
                     /\ resp'.s = inst[i].session
                     /\ \/ listener = "onMessage" /\ resp'.op = "message"
                        \/ listener = "onAck" /\ resp'.op = "ack"
                        \/ listener = "onIncomingCall" /\ resp'.op = "call"
                        \/ listener = "onStateChange" /\ resp'.op = "state"]_vars

\* a state-change event is posted while a second engine of the session is
\* still being created
C31_Witness ==
    /\ DispatchBegins
    /\ resp.status = "post"
    /\ resp.op = "state"
    /\ \E i \in Insts : inst[i].session = resp.s /\ inst[i].phase = "resolved"
    /\ \E i \in Insts : inst[i].session = resp.s /\ inst[i].phase = "creating"

\* the step of rec that follows its suspension and removes the entry of its
\* session: the stale-handle cleanup of start-session (559-560), the removal
\* of logout (949-950, 961-962)
RemovalStep(rec) ==
    \/ StartCloseDone(rec)
    \/ \E out \in CallOutcomes : LogoutCloseResult(rec, out)
    \/ LogoutResult(rec, "throw")

\* C32: the removal that ends a check-then-act sequence tolerates that the
\* entry has disappeared or been replaced meanwhile: it does not fail, and
\* the handle it takes out of the Registry, if any, is the one the handler
\* checked or closed. Violated: clients.delete(session) removes by key, so a
\* handle stored meanwhile by another creation is removed, unclosed.
C32_RemovesOnlyCheckedHandle ==
    [][\A rec \in InFlight :
          RemovalStep(rec) =>
              /\ clients'[rec.s] = NoInst
              /\ clients[rec.s] \in {NoInst, rec.client}]_vars

\* the entries of session s in the three maps
Entries(s) == <<clients[s], qrCodes[s], webhooks[s]>>

\* C33: an operation on session a (start-session, engine callback, creation
\* resolve or reject, logout, send, webhook) never changes the Registry
\* entry, the cached QR or the webhook registration of another session b.
C33_SessionsIndependent ==
    [][UNCHANGED <<clients, qrCodes, webhooks>>
       \/ \A a \in Sessions :
             OperationOn(a) => \A b \in Sessions \ {a} : Entries(b)' = Entries(b)]_vars

\* session b has a handle, a QR and a webhook when a logout ends session a
C33_Witness ==
    /\ resp.kind = "logout"
    /\ resp.s = "a"
    /\ resp.code = 200
    /\ clients["a"] = NoInst
    /\ clients["b"] # NoInst
    /\ qrCodes["b"] # None
    /\ webhooks["b"] # None

\* the response that ends a QR-wait: the QR, the creation error or the timeout
QrWaitAnswered ==
    /\ resp.kind = "start"
    /\ resp.launched
    /\ ~Polling
    /\ \/ resp.code = 200 /\ resp.qr # None
       \/ resp.code = 500 /\ resp.error \in {"create", "timeout"}

\* C34: a start-session call in its QR-wait always leaves the loop and
\* responds, with the QR, the creation error or the timeout error; it never
\* polls forever, whatever the engine does or fails to do.
C34_QrWaitEnds == Polling ~> QrWaitAnswered

\* the wait ended by its ceiling while the creation was still pending
C34_Witness ==
    /\ QrWaitAnswered
    /\ resp.error = "timeout"
    /\ \E i \in Insts : inst[i].session = resp.s /\ inst[i].phase = "creating"

\* C35: once the termination signal has been received, shutdown reaches the
\* exit of the process, whatever the outcome of the closes and of pool.end().
\* Violated: a pool.end() that rejects throws out of shutdown before
\* process.exit.
C35_ShutdownExits == (shutdownPc # "running") ~> (shutdownPc = "exited")

\* C36: a dispatch makes at most 3 delivery attempts; the attempt that gets a
\* success response is its last step; and the third failed attempt drops the
\* event: the dispatch ends and leaves nothing behind that could retry.
C36_AtMostThreeAttempts ==
    [][/\ (resp'.kind = "dispatch" /\ resp'.status = "post") => resp'.attempt \in 1..3
       /\ \A rec \in InFlight :
             /\ DispatchFetchResult(rec, TRUE) =>
                    /\ resp'.status = "sent"
                    /\ reqs' = reqs (-) SetToBag({rec})
             /\ (DispatchFetchResult(rec, FALSE) /\ rec.attempt >= 3) =>
                    /\ resp'.status = "failed"
                    /\ reqs' = reqs (-) SetToBag({rec})]_vars

\* the third attempt has failed and no dispatch is left
C36_Witness ==
    /\ resp.kind = "dispatch"
    /\ resp.status = "failed"
    /\ resp.attempt = 3
    /\ \A rec \in InFlight : rec.kind # "dispatch"

\* C37: a dispatch reads the registered URL once, when it starts: every
\* later attempt is posted to the URL of the attempt before, whatever the
\* webhook map holds by then, and a change of the registration neither ends
\* nor alters a dispatch in flight.
C37_UrlReadOnce ==
    [][/\ \A rec \in InFlight :
             DispatchBackoffDone(rec) =>
                 /\ resp'.status = "post"
                 /\ resp'.url = rec.url
                 /\ resp'.url # None
       /\ webhooks' # webhooks => Except(reqs', Routes) = Except(reqs, Routes)]_vars

\* the third attempt goes to the URL that has been replaced meanwhile
C37_Witness ==
    /\ resp.kind = "dispatch"
    /\ resp.status = "post"
    /\ resp.attempt = 3
    /\ resp.url = "u1"
    /\ webhooks[resp.s] = "u2"
    /\ \E rec \in InFlight : rec.kind = "dispatch" /\ rec.pc = "fetch" /\ rec.url = "u1"

\* a step of a start-session handler: the request arrives, or goes on behind
\* an await
StartStep ==
    \/ \E s \in Sessions, w \in MoreUrls \cup {None}, wait \in BOOLEAN : StartBegin(s, w, wait)
    \/ \E rec \in InFlight :
          \/ \E out \in ConnOutcomes : StartConnResult(rec, out)
          \/ StartCloseDone(rec)
          \/ \E expired \in BOOLEAN : StartPoll(rec, expired)

\* C38: a start-session call that returns early on the handle it found
\* (connected, or QR cached) leaves the webhook map unchanged, whatever
\* webhook the request carries; and a step of start-session that changes the
\* webhook map is one that launches an engine instance.
C38_EarlyReturnKeepsWebhook ==
    [][/\ (resp'.kind = "start" /\ ~resp'.launched) =>
              /\ resp'.status \in {"connected", "qrcode"}
              /\ webhooks' = webhooks
       /\ (webhooks' # webhooks /\ StartStep) => NewInstance]_vars

\* a request returned early with the cached QR while no webhook is
\* registered (under SpecEarly every request carries one)
C38_Witness ==
    /\ resp.kind = "start"
    /\ ~resp.launched
    /\ resp.status = "qrcode"
    /\ resp.qr # None
    /\ webhooks[resp.s] = None

\* the QR-wait of rec has seen the session connect and no QR
ConnectedWithoutQr(rec) ==
    /\ rec.kind = "start"
    /\ rec.pc = "poll"
    /\ rec.sessionStatus = "connected"
    /\ rec.qrCode = None

\* C39: a QR-wait whose session has become connected without a QR does not
\* go on waiting: the loop condition is false for it, and its next wake-up
\* answers with success and status connected. Violated: the loop looks at
\* qrCode and createError only, so the wait lasts to the ceiling and the
\* request fails with the timeout error.
C39_ConnectedEndsWait ==
    [][/\ \A rec \in BagToSet(reqs') :
             ConnectedWithoutQr(rec) /\ inst'[rec.inst].phase # "rejected" =>
                 ~QrWaitGoesOn(rec.qrCode, FALSE, FALSE)
       /\ \A rec \in InFlight, expired \in BOOLEAN :
             (ConnectedWithoutQr(rec) /\ StartPoll(rec, expired)) =>
                 /\ resp'.success = "true"
                 /\ resp'.status = "connected"]_vars

\* C40: when shutdown has exited, close has been invoked on every engine
\* instance the process launched and that is being created or running; and
\* from the clear on, the Registry stays empty. Violated: shutdown closes the
\* handles of the Registry only, so an engine whose creation is pending when
\* the signal arrives is never closed, and its then stores the handle in the
\* Registry while shutdown waits for the closes or for pool.end().
C40_ShutdownClosesEveryEngine ==
    /\ shutdownPc = "exited" =>
           \A i \in Insts : inst[i].phase \in {"creating", "resolved"} => inst[i].closed
    /\ shutdownPc \in {"ending", "exited"} =>
           \A s \in Sessions : clients[s] = NoInst

\* the status codes of the failure classes: validation and not-connected 400,
\* auth 401, not-found 404, engine failure or timeout 500
FailureCodes == {400, 401, 404, 500}

\* the response of an API route (the dispatcher's outcome is not a response)
ApiResponse == resp.kind \notin {None, "dispatch"}

\* C29: every API response carries a boolean success; every failure response
\* (success false, or a status code other than 200) carries success false, an
\* error string and the status code of its class. Violated: the 401 of
\* authenticate has no success field, and GET status answers 200 with success
\* false for a session without a handle (no error string) and for a failed
\* connection check.
C29_ResponseEnvelope ==
    ApiResponse =>
        /\ resp.success \in {"true", "false"}
        /\ (resp.success = "false" \/ resp.code # 200) =>
               /\ resp.success = "false"
               /\ resp.error # None
               /\ resp.code \in FailureCodes

\* the handler of rec has sent the response of a start-session and ended
StartAnswered(rec) ==
    /\ resp.kind = "start"
    /\ resp.s = rec.s
    /\ rec \notin InFlight

\* C30: a start-session call with waitQrCode whose wake-up finds the QR the
\* engine has emitted responds with success, that QR payload and status
\* qrcode; and no successful response of a call with waitQrCode carries a
\* null QR. Violated: the wake-up answers with the transient status as the
\* last callback left it, and throws when the creation has rejected since;
\* and a call for a session that is already connected succeeds without a QR.
C30_QrWaitAnswer ==
    [][\A rec \in InFlight :
          (rec.kind = "start" /\ rec.wait /\ StartAnswered(rec)') =>
              /\ (rec.pc = "poll" /\ rec.qrCode # None) =>
                     /\ resp'.success = "true"
                     /\ resp'.qr = rec.qrCode
                     /\ resp'.status = "qrcode"
              /\ resp'.success = "true" => resp'.qr # None]_vars

TypeOK ==
    /\ clients \in [Sessions -> Insts \cup {NoInst}]
    /\ qrCodes \in [Sessions -> QRs \cup {None}]
    /\ webhooks \in [Sessions -> MoreUrls \cup {None}]
    /\ shutdownPc \in {"running", "closing", "ending", "exited", "failed"}
    /\ BagCardinality(reqs) <= MaxReqs + 1

====
